---- MODULE Spec2Model ----
(***************************************************************************)
(* The signal-analysis orchestrators of seriestemporelles                  *)
(* (SignalAnalysis, MultiVariateSignalAnalysis) and the Visualization      *)
(* class of pasts, as state machines.                                      *)
(*                                                                         *)
(* A DataFrame is a sequence of rows [index, value]; a boolean mask keeps  *)
(* the rows it selects in their order.  The orchestrators never branch on  *)
(* a row's values, so each row carries its position in the dataset as its  *)
(* value: any two rows of a dataset can be told apart.  A Python dict is a *)
(* sequence of [key, value] entries in insertion order.                    *)
(***************************************************************************)
EXTENDS Integers, Sequences, FiniteSets, TLC

\* Bounds of the model.
MaxLen == 3
MaxCols == 3

VARIABLES
  kind,        \* the orchestrator's class
  data,        \* self.data
  attrs,       \* which of train_set, test_set, ts_cv exist as attributes
  train_set,   \* self.train_set
  test_set,    \* self.test_set
  ts_cv,       \* self.ts_cv: the n_splits of the fold generator (0: none)
  scores,      \* self.scores
  results,     \* self.results
  applied,     \* history: class names whose apply_model returned normally
  ret,         \* how the last call ended, and what it invoked and drew
  signal,      \* the Signal a Visualization was constructed on
  out          \* what the last Visualization call raised and drew

orchestrator == <<kind, data, attrs, train_set, test_set, ts_cv, scores, results, applied, ret>>
vars == <<orchestrator, signal, out>>

Kinds == {"SignalAnalysis", "MultiVariateSignalAnalysis"}

\* Class names of the model collaborators (src/.../ex_multivariate_model.py).
ModelNames == {"XGBModel", "VARIMA"}

IsUnivariate(k) == k = "SignalAnalysis"

None == "None"
ParamGrid == "param_grid"

\* What a collaborator call does in one apply_model: at most one of them fails.
FailPoints == {"none", "from_dataframe", "gridsearch", "unpack", "fit", "predict", "metric"}

\* ------------------------------------------------------------------ data

\* The index values and the cutoffs: 0 lies below every index, MaxLen is
\* the largest.
IndexValues == 1..MaxLen
Timestamps == 0..MaxLen

RowsOf(ix) == [k \in 1..Len(ix) |-> [index |-> ix[k], value |-> k]]

IndexLists == UNION { [1..n -> IndexValues] : n \in 0..MaxLen }

\* Any frame (the index in any order, with repeats), and the frames of a
\* regular time series: the index runs 1, 2, ..., n.
Frames == { RowsOf(ix) : ix \in IndexLists }
Datasets == { RowsOf([k \in 1..n |-> k]) : n \in 1..MaxLen }

IndexOf(frame) == [k \in 1..Len(frame) |-> frame[k].index]
ValuesOf(frame) == [k \in 1..Len(frame) |-> frame[k].value]
RangeIndex(n) == [k \in 1..n |-> k - 1]

\* ------------------------------------------------------------------ dict

Keys(d) == { d[i].key : i \in DOMAIN d }
KeyList(d) == [i \in DOMAIN d |-> d[i].key]
Get(d, k) == (CHOOSE i \in DOMAIN d : d[i].key = k)
Lookup(d, k) == d[Get(d, k)].value

\* d[k] = v: an existing key keeps its place, a new one goes last.
DictSet(d, k, v) ==
  IF k \in Keys(d)
  THEN [d EXCEPT ![Get(d, k)] = [key |-> k, value |-> v]]
  ELSE Append(d, [key |-> k, value |-> v])

\* ------------------------------------------------------------- split_cv

\* Mutant: the cutoff row itself is left out of the train slice.
TrainSliceStrict(d, timestamp) == SelectSeq(d, LAMBDA r : r.index < timestamp)

TrainSlice(d, timestamp) == SelectSeq(d, LAMBDA r : r.index <= timestamp)

\* Mutant: a repeated split slices the previous test slice, not the dataset.
TestSliceOfSlice(d, timestamp) ==
  SelectSeq(IF "test_set" \in attrs THEN test_set ELSE d,
            LAMBDA r : r.index > timestamp)

TestSlice(d, timestamp) == SelectSeq(d, LAMBDA r : r.index > timestamp)

\* n_splits_cv: <<>> is None, <<n>> is n.
NSplitsChoices == {<<>>, <<1>>, <<2>>}

\* The choices the orchestrator's full state machine draws from: a fold
\* count the splitter's constructor refuses ends as a train slice too short
\* for the folds does, with both slices assigned and ValueError raised.
FoldChoices == { n \in NSplitsChoices : n = <<>> \/ n[1] >= 2 }

\* Mutant: an empty frame is refused whether or not folds are asked for.
SplitterRaisesOnEmpty(n_splits_cv, frame) ==
  \/ Len(frame) = 0
  \/ /\ n_splits_cv # <<>>
     /\ \/ n_splits_cv[1] < 2
        \/ n_splits_cv[1] + 1 > Len(frame)

\* TimeSeriesSplit(n_splits) refuses fewer than two splits, and its split()
\* refuses a frame with fewer than n_splits + 1 rows.
SplitterRaises(n_splits_cv, frame) ==
  /\ n_splits_cv # <<>>
  /\ \/ n_splits_cv[1] < 2
     \/ n_splits_cv[1] + 1 > Len(frame)

NoCall(op, args, raised) ==
  [op |-> op, args |-> args, raised |-> raised, calls |-> <<>>,
   plotted |-> <<>>, shown |-> FALSE]

split_cv(timestamp, n_splits_cv) ==
  LET train == TrainSlice(data, timestamp)
      test == TestSlice(data, timestamp)
      raises == SplitterRaises(n_splits_cv, train)
      folds == n_splits_cv # <<>> /\ ~raises
  IN /\ train_set' = train
     /\ test_set' = test
     /\ attrs' = attrs \cup {"train_set", "test_set"}
                       \cup (IF folds THEN {"ts_cv"} ELSE {})
     /\ ts_cv' = IF folds THEN n_splits_cv[1] ELSE ts_cv
     /\ ret' = NoCall("split_cv", <<timestamp, n_splits_cv>>,
                      IF raises THEN "ValueError" ELSE "")
     /\ UNCHANGED <<kind, data, scores, results, applied, signal, out>>

\* ---------------------------------------------------------- apply_model

\* Mutant: the multivariate class saves its results before it first
\* evaluates the metric.
ApplyStepsSaveFirst(k, gridsearch) ==
  IF k = "SignalAnalysis"
  THEN <<"from_dataframe_train">>
       \o (IF gridsearch THEN <<"check_parameters", "gridsearch", "unpack">> ELSE <<>>)
       \o <<"fit", "predict", "print_metric", "save_scores", "save_results">>
  ELSE (IF gridsearch THEN <<"gridsearch", "unpack">> ELSE <<>>)
       \o <<"from_dataframe_train", "from_dataframe_test", "fit", "predict",
            "save_results", "print_metric", "save_scores">>

\* The statements of apply_model in the order the source runs them.  The
\* univariate class turns the train slice into a series first, checks the
\* search space, and saves scores before results; the multivariate class
\* searches first, never checks the search space, and saves results before
\* scores.
ApplySteps(k, gridsearch) ==
  IF IsUnivariate(k)
  THEN <<"from_dataframe_train">>
       \o (IF gridsearch THEN <<"check_parameters", "gridsearch", "unpack">> ELSE <<>>)
       \o <<"fit", "predict", "print_metric", "save_scores", "save_results">>
  ELSE (IF gridsearch THEN <<"gridsearch", "unpack">> ELSE <<>>)
       \o <<"from_dataframe_train", "from_dataframe_test", "fit", "predict",
            "print_metric", "save_results", "save_scores">>

\* Whether a statement raises.  An empty frame cannot be made a series or
\* scored, and a search over no search space cannot run; the metric is a
\* function of its arguments, so it fails at every evaluation or at none.
\* The univariate class unpacks gridsearch's return value into three names
\* and the multivariate class into two: "unpack" fails when the collaborator
\* returns another number of values.
StepFails(step, k, parameters, fail, train, test) ==
  CASE step = "from_dataframe_train" -> Len(train) = 0 \/ fail = "from_dataframe"
    [] step = "from_dataframe_test" -> Len(test) = 0 \/ fail = "from_dataframe"
    [] step = "check_parameters" -> parameters = None
    [] step = "gridsearch" -> parameters = None \/ fail = "gridsearch"
    [] step = "unpack" -> fail = "unpack"
    [] step = "fit" -> fail = "fit"
    [] step = "predict" -> fail = "predict"
    [] step = "print_metric" -> Len(test) = 0 \/ fail = "metric"
    [] step = "save_scores" -> Len(test) = 0 \/ fail = "metric"
    [] step = "save_results" -> FALSE

\* apply_model(model), apply_model(model, gridsearch=True) and
\* apply_model(model, gridsearch=True, parameters=param_grid).
ApplyCalls == {<<FALSE, None>>, <<TRUE, None>>, <<TRUE, ParamGrid>>}

ConfigError == "Exception: please enter the parameters"

StepError(step) ==
  CASE step = "check_parameters" -> ConfigError
    [] step = "unpack" -> "ValueError"
    [] OTHER -> "CollaboratorError"

\* The place of the first statement that raises (0: none does).
FirstFailure(steps, k, parameters, fail, train, test) ==
  LET bad == { i \in DOMAIN steps :
                 StepFails(steps[i], k, parameters, fail, train, test) }
  IN IF bad = {} THEN 0 ELSE CHOOSE i \in bad : \A j \in bad : i <= j

\* The statements that ran, the one that raised included.
Ran(steps, ff) == IF ff = 0 THEN steps ELSE SubSeq(steps, 1, ff)

\* Whether a statement ran to its end.
Completed(step, steps, ff) ==
  \E i \in DOMAIN steps : steps[i] = step /\ (ff = 0 \/ i < ff)

\* model.__class__.__name__; gridsearch returns an instance of the class it
\* is called on.
ClassName(model) == model

\* model.predict(n): n steps.  The collaborator here repeats the last
\* training value.
Predict(model, train, n) == [i \in 1..n |-> train[Len(train)].value]

\* A library metric applied to its arguments.
Metric(name, actual, predicted) ==
  [metric |-> name, actual |-> actual, predicted |-> predicted]

ScoreRecord(k, test, forecast) ==
  IF IsUnivariate(k)
  THEN [k2 \in {"R2_score", "RMSE_score"} |-> Metric(k2, ValuesOf(test), forecast)]
  ELSE [k2 \in {"MAPE_score"} |-> Metric(k2, ValuesOf(test), forecast)]

\* The univariate class stores the forecast's values (an array, addressed
\* by position); the multivariate class a new frame with a default index.
ResultRecord(k, test, forecast) ==
  [test_set |-> test,
   predictions |-> [values |-> forecast, index |-> RangeIndex(Len(forecast))]]

SaveScores(d, name, k, test, forecast) ==
  DictSet(d, name, ScoreRecord(k, test, forecast))

\* Mutant: the results dict is replaced by one holding the new entry alone.
SaveResultsAlone(d, name, k, test, forecast) ==
  <<[key |-> name, value |-> ResultRecord(k, test, forecast)]>>

SaveResults(d, name, k, test, forecast) ==
  DictSet(d, name, ResultRecord(k, test, forecast))

apply_model(model, gridsearch, parameters, fail) ==
  LET args == <<gridsearch, parameters>>
      steps == ApplySteps(kind, gridsearch)
      ff == FirstFailure(steps, kind, parameters, fail, train_set, test_set)
      name == ClassName(model)
      forecast == Predict(model, train_set, Len(test_set))
  IN IF "train_set" \notin attrs
     THEN /\ ret' = NoCall("apply_model", args, "AttributeError")
          /\ UNCHANGED <<kind, data, attrs, train_set, test_set, ts_cv,
                         scores, results, applied, signal, out>>
     ELSE /\ scores' = IF Completed("save_scores", steps, ff)
                       THEN SaveScores(scores, name, kind, test_set, forecast)
                       ELSE scores
          /\ results' = IF Completed("save_results", steps, ff)
                        THEN SaveResults(results, name, kind, test_set, forecast)
                        ELSE results
          /\ applied' = IF ff = 0 THEN applied \cup {name} ELSE applied
          /\ ret' = [op |-> "apply_model", args |-> args,
                     raised |-> IF ff = 0 THEN "" ELSE StepError(steps[ff]),
                     calls |-> Ran(steps, ff), plotted |-> <<>>, shown |-> FALSE]
          /\ UNCHANGED <<kind, data, attrs, train_set, test_set, ts_cv, signal, out>>

\* ------------------------------------------------------ show_predictions

\* The first recorded result whose predictions are not as long as the test
\* slice (0: none): assigning them to the test slice's rows raises there.
FirstMismatch(res, test) ==
  LET bad == { i \in DOMAIN res :
                 Len(res[i].value.predictions.values) # Len(test) }
  IN IF bad = {} THEN 0 ELSE CHOOSE i \in bad : \A j \in bad : i <= j

\* pred.index = self.test_set.index on the first n recorded results (the
\* multivariate class sets it on the stored frame itself).
Realign(res, test, n) ==
  [i \in DOMAIN res |->
     IF i <= n
     THEN [res[i] EXCEPT !.value.predictions.index = IndexOf(test)]
     ELSE res[i]]

show_predictions ==
  IF "test_set" \notin attrs
  THEN /\ ret' = NoCall("show_predictions", <<>>, "AttributeError")
       /\ UNCHANGED <<kind, data, attrs, train_set, test_set, ts_cv,
                      scores, results, applied, signal, out>>
  ELSE LET mm == FirstMismatch(results, test_set)
           done == IF mm = 0 THEN Len(results) ELSE mm - 1
       IN /\ results' = IF IsUnivariate(kind) THEN results
                        ELSE Realign(results, test_set, done)
          /\ ret' = [op |-> "show_predictions", args |-> <<>>,
                     raised |-> IF mm = 0 THEN "" ELSE "ValueError",
                     calls |-> <<>>,
                     plotted |-> IF IsUnivariate(kind)
                                 THEN (IF mm = 0 THEN KeyList(results) ELSE <<>>)
                                 ELSE SubSeq(KeyList(results), 1, done),
                     shown |-> mm = 0]
          /\ UNCHANGED <<kind, data, attrs, train_set, test_set, ts_cv,
                         scores, applied, signal, out>>

\* --------------------------------------------------------- Visualization

Aggregated == "AggregatedModel"

\* The keys of self.__signal.models.
SignalModelNames == ModelNames \cup {Aggregated}

\* The keys a model's record may hold besides its predictions.
OptionalFields(name) ==
  IF name = Aggregated
  THEN {"confidence_interval", "forecast", "forecast_interval"}
  ELSE {"forecast"}

\* Dicts of model records (each the set of its keys) in insertion order.
RECURSIVE ModelDicts(_)
ModelDicts(names) ==
  {<<>>} \cup
  UNION { { <<[key |-> m, value |-> {"predictions"} \cup extra]>> \o rest :
              extra \in SUBSET OptionalFields(m), rest \in ModelDicts(names \ {m}) }
          : m \in names }

\* The signal's properties: one column is a univariate series.
Properties(n_cols) == [is_univariate |-> n_cols = 1]

\* A Signal: models are applied to a split signal only.
Signals ==
  { [n_cols |-> n, properties |-> Properties(n), has_test_data |-> t, models |-> m] :
      n \in 1..MaxCols, t \in BOOLEAN, m \in ModelDicts(SignalModelNames) }

SplitSignals == { sg \in Signals : sg.models # <<>> => sg.has_test_data }

Drew(op, args, raised, series, labels, warned, shown) ==
  [op |-> op, args |-> args, raised |-> raised, series |-> series,
   labels |-> labels, warned |-> warned, shown |-> shown]

Series(what, model, col) == [what |-> what, model |-> model, col |-> col]

\* [name + '_s' + str(i) for i in range(1, n_signals + 1)]
ColLabels(name, n) == [i \in 1..n |-> [name |-> name, col |-> i]]

\* The interval's bounds, one plot per column, and their three labels.
IntervalSeries(n) == [i \in 1..n |-> Series("bounds", Aggregated, i)]
IntervalLabels(n) ==
  [k \in 1..(3 * n) |->
     [name |-> <<"lower", "upper", "interval">>[((k - 1) % 3) + 1],
      col |-> ((k - 1) \div 3) + 1]]

UnivariateOnly == "Exception: Can only plot acf for univariate series"
NoPredictions == "Exception: No predictions have been computed."
NoAggregated == "Exception: No predictions have been computed with aggregated model"

\* Mutant: the guard is missing.
AcfPlotUnguarded(sg) ==
  Drew("acf_plot", <<>>, "", <<Series("autocorrelation", "", 0)>>, <<>>, <<>>, TRUE)

AcfPlot(sg) ==
  IF ~sg.properties.is_univariate
  THEN Drew("acf_plot", <<>>, UnivariateOnly, <<>>, <<>>, <<>>, FALSE)
  ELSE Drew("acf_plot", <<>>, "", <<Series("autocorrelation", "", 0)>>, <<>>, <<>>, TRUE)

acf_plot ==
  /\ out' = AcfPlot(signal)
  /\ UNCHANGED <<orchestrator, signal>>

\* Visualization.show_predictions
PlotPredictions(sg, aggregated_only, display) ==
  LET op == "Visualization.show_predictions"
      args == <<aggregated_only, display>>
      n == sg.n_cols
      actuals == <<Series("data", "", 0)>>
      to_plot == IF aggregated_only THEN <<Aggregated>> ELSE KeyList(sg.models)
      preds == [i \in DOMAIN to_plot |-> Series("predictions", to_plot[i], 0)]
      names == [k \in 1..(n * Len(to_plot)) |->
                  [name |-> to_plot[((k - 1) \div n) + 1], col |-> ((k - 1) % n) + 1]]
  IN IF sg.models = <<>>
     THEN Drew(op, args, NoPredictions, <<>>, <<>>, <<>>, FALSE)
     ELSE IF ~sg.has_test_data
     THEN Drew(op, args, "AttributeError", <<>>, <<>>, <<>>, FALSE)
     ELSE IF aggregated_only /\ Aggregated \notin Keys(sg.models)
     THEN Drew(op, args, NoAggregated, actuals, ColLabels("Actuals", n), <<>>, FALSE)
     ELSE IF aggregated_only /\ "confidence_interval" \notin Lookup(sg.models, Aggregated)
     THEN Drew(op, args, "KeyError", actuals, ColLabels("Actuals", n), <<>>, FALSE)
     ELSE Drew(op, args, "",
               actuals \o (IF aggregated_only THEN IntervalSeries(n) ELSE <<>>) \o preds,
               ColLabels("Actuals", n)
                 \o (IF aggregated_only THEN IntervalLabels(n) ELSE <<>>) \o names,
               <<>>, display)

Visualization_show_predictions(aggregated_only, display) ==
  /\ out' = PlotPredictions(signal, aggregated_only, display)
  /\ UNCHANGED <<orchestrator, signal>>

\* The loop of show_forecast over to_plot: a record without a forecast is
\* warned about and skipped.
RECURSIVE ForecastLoop(_, _, _, _)
ForecastLoop(models, to_plot, n, acc) ==
  IF to_plot = <<>> THEN acc
  ELSE LET model == Head(to_plot)
       IN IF "forecast" \notin Lookup(models, model)
          THEN ForecastLoop(models, Tail(to_plot), n,
                            [acc EXCEPT !.warned = Append(@, model)])
          ELSE ForecastLoop(models, Tail(to_plot), n,
                            [acc EXCEPT !.series = Append(@, Series("forecast", model, 0)),
                                        !.labels = @ \o ColLabels(model, n)])

ShowForecast(sg, aggregated_only, display) ==
  LET op == "show_forecast"
      args == <<aggregated_only, display>>
      n == sg.n_cols
      actuals == <<Series("data", "", 0)>>
      to_plot == IF aggregated_only THEN <<Aggregated>> ELSE KeyList(sg.models)
  IN IF ~sg.has_test_data
     THEN Drew(op, args, "AttributeError", <<>>, <<>>, <<>>, FALSE)
     ELSE IF aggregated_only /\ Aggregated \notin Keys(sg.models)
     THEN Drew(op, args, NoAggregated, actuals, ColLabels("Actuals", n), <<>>, FALSE)
     ELSE IF aggregated_only /\ "forecast_interval" \notin Lookup(sg.models, Aggregated)
     THEN Drew(op, args, "KeyError", actuals, ColLabels("Actuals", n), <<>>, FALSE)
     ELSE ForecastLoop(sg.models, to_plot, n,
            Drew(op, args, "",
                 actuals \o (IF aggregated_only THEN IntervalSeries(n) ELSE <<>>),
                 ColLabels("Actuals", n)
                   \o (IF aggregated_only THEN IntervalLabels(n) ELSE <<>>),
                 <<>>, display))

show_forecast(aggregated_only, display) ==
  /\ out' = ShowForecast(signal, aggregated_only, display)
  /\ UNCHANGED <<orchestrator, signal>>

\* ------------------------------------------------------------------ spec

Init ==
  /\ kind \in Kinds
  /\ data \in Datasets
  /\ attrs = {}
  /\ train_set = <<>>
  /\ test_set = <<>>
  /\ ts_cv = 0
  /\ scores = <<>>
  /\ results = <<>>
  /\ applied = {}
  /\ ret = NoCall("__init__", <<>>, "")
  /\ signal = [n_cols |-> 1, properties |-> Properties(1),
               has_test_data |-> FALSE, models |-> <<>>]
  /\ out = Drew("__init__", <<>>, "", <<>>, <<>>, <<>>, FALSE)

Next ==
  \/ \E timestamp \in Timestamps, n_splits_cv \in FoldChoices :
       split_cv(timestamp, n_splits_cv)
  \/ \E model \in ModelNames, call \in ApplyCalls, fail \in FailPoints :
       apply_model(model, call[1], call[2], fail)
  \/ show_predictions

Spec == Init /\ [][Next]_vars

\* split_cv alone, on any frame.
SplitInit ==
  /\ kind \in Kinds
  /\ data \in Frames
  /\ attrs = {}
  /\ train_set = <<>>
  /\ test_set = <<>>
  /\ ts_cv = 0
  /\ scores = <<>>
  /\ results = <<>>
  /\ applied = {}
  /\ ret = NoCall("__init__", <<>>, "")
  /\ signal = [n_cols |-> 1, properties |-> Properties(1),
               has_test_data |-> FALSE, models |-> <<>>]
  /\ out = Drew("__init__", <<>>, "", <<>>, <<>>, <<>>, FALSE)

SplitNext ==
  \E timestamp \in Timestamps, n_splits_cv \in NSplitsChoices :
    split_cv(timestamp, n_splits_cv)

SplitSpec == SplitInit /\ [][SplitNext]_vars

\* A Visualization on a Signal.
VizInit ==
  /\ kind = "SignalAnalysis"
  /\ data = <<>>
  /\ attrs = {}
  /\ train_set = <<>>
  /\ test_set = <<>>
  /\ ts_cv = 0
  /\ scores = <<>>
  /\ results = <<>>
  /\ applied = {}
  /\ ret = NoCall("__init__", <<>>, "")
  /\ signal \in SplitSignals
  /\ out = Drew("__init__", <<>>, "", <<>>, <<>>, <<>>, FALSE)

VizNext ==
  \/ acf_plot
  \/ \E aggregated_only \in BOOLEAN, display \in BOOLEAN :
       Visualization_show_predictions(aggregated_only, display)
  \/ \E aggregated_only \in BOOLEAN, display \in BOOLEAN :
       show_forecast(aggregated_only, display)

VizSpec == VizInit /\ [][VizNext]_vars

\* ---------------------------------------------------------------- claims

Range(f) == { f[i] : i \in DOMAIN f }

\* The rows of frame d on each side of cutoff c.
AtOrBefore(d, c) == { r \in Range(d) : r.index <= c }
After(d, c) == { r \in Range(d) : r.index > c }

\* A slice keeps the dataset's order and holds no row twice: a row's value
\* is its position in the dataset.
InOrder(slice) == \A i, j \in DOMAIN slice : i < j => slice[i].value < slice[j].value

\* C1: after split_cv(cutoff), train_set holds exactly the rows of the
\* dataset with index <= cutoff and test_set exactly those with index >
\* cutoff, each once and in the dataset's order; no row is in both and none
\* is missing.
C1_SplitPartitions ==
  ret.op = "split_cv" =>
    LET cutoff == ret.args[1]
    IN /\ Range(train_set) = AtOrBefore(data, cutoff)
       /\ Range(test_set) = After(data, cutoff)
       /\ InOrder(train_set) /\ InOrder(test_set)
       /\ Range(train_set) \cap Range(test_set) = {}
       /\ Range(train_set) \cup Range(test_set) = Range(data)
       /\ Len(train_set) + Len(test_set) = Len(data)

\* C1's case: a dataset whose index is out of order, split into a train
\* slice of two rows and a non-empty test slice.
C1_Witness ==
  /\ ret.op = "split_cv"
  /\ Len(train_set) >= 2
  /\ Len(test_set) >= 1
  /\ \E i, j \in DOMAIN data : i < j /\ data[i].index > data[j].index

\* C2, as claimed: split_cv on a dataset with rows raises whenever the train
\* slice or the test slice it makes is empty.
C2_RaisesOnEmptySlice ==
  (ret.op = "split_cv" /\ Len(data) > 0
     /\ (Len(train_set) = 0 \/ Len(test_set) = 0))
    => ret.raised # ""

\* C2, amended: split_cv does not check the cutoff.  Called without
\* n_splits_cv it returns normally whatever the cutoff; it raises exactly
\* when folds are asked for and the fold splitter refuses them (fewer than
\* two folds, or a train slice of fewer than n_splits_cv + 1 rows), the
\* slices being assigned all the same.  The train slice is empty exactly
\* when no index is <= cutoff and the test slice exactly when no index is
\* > cutoff.
C2_NoCutoffCheck ==
  ret.op = "split_cv" =>
    LET cutoff == ret.args[1]
        n_splits_cv == ret.args[2]
    IN /\ {"train_set", "test_set"} \subseteq attrs
       /\ n_splits_cv = <<>> => ret.raised = ""
       /\ ret.raised # "" <=>
            ( /\ n_splits_cv # <<>>
              /\ (n_splits_cv[1] < 2 \/ Len(train_set) < n_splits_cv[1] + 1) )
       /\ Len(train_set) = 0 <=> (\A i \in DOMAIN data : data[i].index > cutoff)
       /\ Len(test_set) = 0 <=> (\A i \in DOMAIN data : data[i].index <= cutoff)

\* C2's case: split_cv returned normally on a dataset with rows and left an
\* empty train slice; and it returned normally with an empty test slice
\* although folds were asked for.
C2_Witness ==
  /\ ret.op = "split_cv"
  /\ ret.raised = ""
  /\ Len(data) > 0
  /\ \/ Len(train_set) = 0
     \/ Len(test_set) = 0 /\ ret.args[2] # <<>>

SucceededApply == ret.op = "apply_model" /\ ret.raised = ""

\* C3: the keys of results are the class names of the models applied with
\* success, each once.  No call removes an entry; a successful apply_model
\* writes one key, adding an entry when the key is new and replacing the
\* entry in place when it is not, and leaves every other entry as it was.
C3_ResultsKeys ==
  /\ [](Keys(results) = applied /\ Len(results) = Cardinality(Keys(results)))
  /\ [][ /\ Keys(results) \subseteq Keys(results')
         /\ SucceededApply' =>
              \E m \in ModelNames :
                /\ Keys(results') = Keys(results) \cup {m}
                /\ Len(results') = Len(results) + (IF m \in Keys(results) THEN 0 ELSE 1)
                /\ Lookup(results', m).test_set = test_set
                /\ \A k \in Keys(results) \ {m} :
                     Lookup(results', k) = Lookup(results, k)
         /\ ~SucceededApply' => KeyList(results') = KeyList(results) ]_vars

\* C3's case: two classes are recorded, and the class recorded first has just
\* been applied again after a new split: its entry holds the current test
\* slice and the other entry an earlier one.
C3_Witness ==
  /\ SucceededApply
  /\ Len(results) = 2
  /\ results[1].value.test_set = test_set
  /\ results[2].value.test_set # test_set

ModelCalls == {"gridsearch", "fit", "predict"}

\* Both slices exist and hold rows.
ProperSplit ==
  /\ {"train_set", "test_set"} \subseteq attrs
  /\ Len(train_set) > 0
  /\ Len(test_set) > 0

\* C4, as claimed: on a dataset split into two non-empty slices, apply_model
\* with gridsearch=True and parameters=None ends in the configuration error
\* with none of the model's gridsearch, fit and predict invoked.  (Where the
\* train slice is made a series before the check, that conversion is taken
\* to succeed.)
C4_SearchSpaceChecked ==
  ( /\ ret.op = "apply_model"
    /\ ret.args = <<TRUE, None>>
    /\ ProperSplit
    /\ ret.calls # <<"from_dataframe_train">> )
  => /\ ret.raised = ConfigError
     /\ Range(ret.calls) \cap ModelCalls = {}

\* C5, as claimed: in every state (taking those where both slices hold
\* rows), each recorded result's predictions have as many steps as the
\* current test slice.
C5_PredictionsFitTestSet ==
  ProperSplit =>
    \A i \in DOMAIN results :
      Len(results[i].value.predictions.values) = Len(test_set)

\* C6, as claimed: show_predictions on an orchestrator split into two
\* non-empty slices, with no model applied yet, raises the "no predictions"
\* error and shows no plot.
C6_NoPredictionsRaises ==
  (ret.op = "show_predictions" /\ applied = {} /\ ProperSplit)
    => (ret.raised = NoPredictions /\ ~ret.shown)

\* The models show_forecast is asked to plot.
AskedToPlot ==
  IF out.args[1] THEN Keys(signal.models) \cap {Aggregated} ELSE Keys(signal.models)

\* C7, as claimed: show_forecast on a split signal warns about every model it
\* is asked to plot whose record has no forecast, draws no forecast and no
\* label for it, draws every asked model that has one, and does not raise.
C7_MissingForecastSkipped ==
  (out.op = "show_forecast" /\ signal.has_test_data /\ AskedToPlot # {}) =>
    /\ out.raised = ""
    /\ \A m \in AskedToPlot :
         IF "forecast" \in Lookup(signal.models, m)
         THEN Series("forecast", m, 0) \in Range(out.series)
         ELSE /\ m \in Range(out.warned)
              /\ Series("forecast", m, 0) \notin Range(out.series)
              /\ \A l \in Range(out.labels) : l.name # m

\* C8: acf_plot raises the "univariate only" error and draws nothing when the
\* signal is not univariate, and draws the autocorrelation when it is.
C8_AcfUnivariateOnly ==
  out.op = "acf_plot" =>
    IF signal.properties.is_univariate
    THEN out.raised = "" /\ out.series = <<Series("autocorrelation", "", 0)>>
    ELSE out.raised = UnivariateOnly /\ out.series = <<>>

\* C8's case: acf_plot on a 3-column signal.
C8_Witness ==
  /\ out.op = "acf_plot"
  /\ signal.n_cols = 3
  /\ out.raised = UnivariateOnly

\* C9: no call changes the dataset, and every split_cv, the first or a
\* repeated one, leaves the two sides of the whole dataset at its own cutoff.
C9_DataImmutable ==
  [][ /\ data' = data
      /\ ret'.op = "split_cv" =>
           /\ Range(train_set') = AtOrBefore(data, ret'.args[1])
           /\ Range(test_set') = After(data, ret'.args[1])
           /\ Len(train_set') + Len(test_set') = Len(data) ]_vars

\* C9's case: a split after a model was applied on an earlier, different
\* split, which moved rows from the train slice to the test slice.
C9_Witness ==
  /\ ret.op = "split_cv"
  /\ results # <<>>
  /\ Len(results[1].value.test_set) < Len(test_set)
  /\ Len(train_set) > 0

\* C10: scores and results have the same keys in every state; an apply_model
\* that raises changes neither, and one that returns writes one key in both,
\* scored against the current test slice.
C10_ScoresMatchResults ==
  /\ [](Keys(scores) = Keys(results))
  /\ [][ /\ (ret'.op = "apply_model" /\ ret'.raised # "")
            => (scores' = scores /\ results' = results)
         /\ SucceededApply' =>
              \E m \in ModelNames :
                /\ Keys(scores') = Keys(scores) \cup {m}
                /\ Keys(results') = Keys(results) \cup {m}
                /\ \A k \in DOMAIN Lookup(scores', m) :
                     Lookup(scores', m)[k].actual = ValuesOf(test_set)
                /\ Lookup(results', m).test_set = test_set ]_vars

\* C10's case: with a result recorded, an apply_model whose fit and predict
\* succeeded raised at the metric.
C10_Witness ==
  /\ ret.op = "apply_model"
  /\ ret.raised # ""
  /\ ret.calls # <<>>
  /\ ret.calls[Len(ret.calls)] = "print_metric"
  /\ results # <<>>

\* C11, as claimed: show_predictions only reads: a call leaves scores, results
\* (each stored predictions object, its index included), train_set and
\* test_set as they were, in both classes.
C11_ShowPredictionsReadsOnly ==
  [][ ret'.op = "show_predictions" =>
        /\ scores' = scores
        /\ results' = results
        /\ train_set' = train_set
        /\ test_set' = test_set ]_vars

====
